---- MODULE Spec2Model ----
(***************************************************************************)
(* Model of the image-clipper backend (darshanvss/image-clipper).          *)
(*                                                                         *)
(*   app/routers/segmentation.py  session endpoints over IMAGE_STORE        *)
(*   app/models/sam_model.py      SAMModel, predict_masks, get_model        *)
(*   app/utils/image_utils.py     decode_mask, compositing                  *)
(*                                                                         *)
(* Three specifications share the module:                                  *)
(*   SpecPipeline  the pure mask pipeline: encode, decode_mask, composite   *)
(*   SpecPredict   one call of SAMModel.predict_masks, dispatch and ranking *)
(*   Spec          the session endpoints as coroutines on one event loop    *)
(***************************************************************************)
EXTENDS Integers, Sequences, FiniteSets, TLC

VARIABLES
    IMAGE_STORE,     \* routers/segmentation.py: image_id -> session record
    files,           \* the uploads/ directory: path -> file content
    uuids,           \* how many uuid4 values save_uploaded_image has drawn
    model_instance,  \* sam_model.py _model_instance: 0 is None, else an instance
    predictors,      \* SAMModel instance -> state of its SamPredictor
    req,             \* request slot -> the coroutine serving it
    resp,            \* the response the last step sent, if it sent one
    returned,        \* image_id -> the result the last successful segment call returned
    pipe,            \* SpecPipeline: the data of one pass through the mask pipeline
    call             \* SpecPredict: the data of one predict_masks call

mainVars == <<IMAGE_STORE, files, uuids, model_instance, predictors, req, resp, returned>>
vars == <<IMAGE_STORE, files, uuids, model_instance, predictors, req, resp, returned, pipe, call>>

\* Python's Optional: None, or a value.
None == [is_none |-> TRUE]
Some(v) == [is_none |-> FALSE, val |-> v]

----------------------------------------------------------------------------
(* Bounds of the model.                                                    *)

\* Largest number of pixels of a grid (an image or a mask).
MaxCells == 4
\* Largest number of masks selected for one composite.
MaxMasks == 2
\* Largest number of candidates the predictor returns from one predict call.
MaxCands == 2
\* Largest number of sessions ever uploaded (uuid4 values drawn).
MaxSessions == 2
\* Number of request slots: requests that can be in flight at the same time.
MaxReqs == 2

----------------------------------------------------------------------------
(* Grids: numpy arrays of shape (h, w) as sequences of rows.               *)

GridDims == {d \in (1..MaxCells) \X (1..MaxCells) : d[1] * d[2] <= MaxCells}

Grids(h, w, S) == [1..h -> [1..w -> S]]

Height(g) == Len(g)
Width(g) == Len(g[1])

\* What an operator yields when the code raises ValueError: the empty sequence,
\* which is no grid (a grid has at least one row).
ValueError == <<>>
IsGrid(g) == g # ValueError

\* ndarray.flatten(): the rows one after the other (C order).
RECURSIVE Flatten(_)
Flatten(g) == IF g = <<>> THEN <<>> ELSE Head(g) \o Flatten(Tail(g))

RECURSIVE SumSeq(_)
SumSeq(s) == IF s = <<>> THEN 0 ELSE Head(s) + SumSeq(Tail(s))

Min(S) == CHOOSE v \in S : \A u \in S : v <= u
Max(S) == CHOOSE v \in S : \A u \in S : v >= u

\* mask.astype(np.uint8) of a boolean array.
astype_uint8(b) == IF b THEN 1 ELSE 0

\* Pixels of an uploaded picture, (R, G, B); every pixel of TestImage differs.
TestImage(h, w) == [y \in 1..h |-> [x \in 1..w |-> <<10 * y + x, 50 + 10 * y + x, 100 + 10 * y + x>>]]
BlackImage(h, w) == [y \in 1..h |-> [x \in 1..w |-> <<0, 0, 0>>]]

----------------------------------------------------------------------------
(* Mask codec.                                                             *)

\* The plausible slip of leaving out the scaling to 255.
EncodeMaskUnscaled(mask) ==
    Flatten([y \in 1..Height(mask) |-> [x \in 1..Width(mask) |-> astype_uint8(mask[y][x])]])

\* sam_model.py: binary_mask = mask.astype(np.uint8) * 255; flatten().tolist()
EncodeMask(mask) ==
    Flatten([y \in 1..Height(mask) |->
                [x \in 1..Width(mask) |-> (astype_uint8(mask[y][x]) * 255) % 256]])

\* image_utils.py decode_mask: reshape(image_height, image_width), then > 127 as
\* uint8 (0 or 1). A list of another length cannot be reshaped: ValueError.
decode_mask(mask_data, image_width, image_height) ==
    IF Len(mask_data) # image_height * image_width
    THEN ValueError
    ELSE [y \in 1..image_height |->
            [x \in 1..image_width |->
                astype_uint8(mask_data[(y - 1) * image_width + x] > 127)]]

----------------------------------------------------------------------------
(* Compositor.                                                             *)

\* np.where(binary_mask, a, b) assigned into an (h, w) slice: numpy broadcasts a
\* mask of shape (mh, mw) when each of its dimensions is 1 or the slice's.
Broadcasts(mask, h, w) ==
    /\ Height(mask) \in {1, h}
    /\ Width(mask) \in {1, w}

\* binary_mask = mask.astype(bool), read at (y, x) after broadcasting.
MaskAt(mask, y, x) ==
    mask[IF Height(mask) = 1 THEN 1 ELSE y][IF Width(mask) = 1 THEN 1 ELSE x] # 0

\* The alpha channel rebuilt from the mask alone instead of kept where false.
ApplyMaskAlphaReset(image, out, mask) ==
    [y \in 1..Height(image) |->
        [x \in 1..Width(image) |->
            IF MaskAt(mask, y, x)
            THEN <<image[y][x][1], image[y][x][2], image[y][x][3], 255>>
            ELSE <<out[y][x][1], out[y][x][2], out[y][x][3], 0>>]]

\* One iteration of the loop over masks: the three colour channels, then alpha.
ApplyMask(image, out, mask) ==
    [y \in 1..Height(image) |->
        [x \in 1..Width(image) |->
            <<IF MaskAt(mask, y, x) THEN image[y][x][1] ELSE out[y][x][1],
              IF MaskAt(mask, y, x) THEN image[y][x][2] ELSE out[y][x][2],
              IF MaskAt(mask, y, x) THEN image[y][x][3] ELSE out[y][x][3],
              IF MaskAt(mask, y, x) THEN 255 ELSE out[y][x][4]>>]]

RECURSIVE CompositeLoop(_, _, _)
CompositeLoop(image, out, masks) ==
    IF masks = <<>> THEN out
    ELSE IF ~Broadcasts(Head(masks), Height(image), Width(image)) THEN ValueError
    ELSE CompositeLoop(image, ApplyMask(image, out, Head(masks)), Tail(masks))

\* image_utils.py create_transparent_image_with_masks: starts from np.zeros
\* (h, w, 4); Image.fromarray reads the four channels as (R, G, B, A).
create_transparent_image_with_masks(image, masks) ==
    CompositeLoop(image,
                  [y \in 1..Height(image) |-> [x \in 1..Width(image) |-> <<0, 0, 0, 0>>]],
                  masks)

----------------------------------------------------------------------------
(* SpecPipeline: masks as the predictor returns them are encoded            *)
(* (predict_masks), decoded (export_image) and composited over the image.   *)

NoPipe == [stage |-> "off"]
NoCall == [stage |-> "off"]

Idle == [kind |-> "idle", pc |-> "idle"]
NoResponse == [kind |-> "none"]

MainInit ==
    /\ IMAGE_STORE = <<>>
    /\ files = <<>>
    /\ uuids = 0
    /\ model_instance = 0
    /\ predictors = <<>>
    /\ req = [r \in 1..MaxReqs |-> Idle]
    /\ resp = NoResponse
    /\ returned = <<>>

InitPipeline ==
    /\ MainInit
    /\ call = NoCall
    /\ \E d \in GridDims, n \in 1..MaxMasks :
         \E image \in {TestImage(d[1], d[2]), BlackImage(d[1], d[2])},
            masks \in [1..n -> Grids(d[1], d[2], BOOLEAN)] :
              pipe = [stage |-> "raw", image |-> image, masks |-> masks]

PipeEncode ==
    /\ pipe.stage = "raw"
    /\ pipe' = [stage |-> "encoded", image |-> pipe.image, masks |-> pipe.masks,
                mask_data |-> [i \in DOMAIN pipe.masks |-> EncodeMask(pipe.masks[i])]]
    /\ UNCHANGED <<mainVars, call>>

PipeDecode ==
    /\ pipe.stage = "encoded"
    /\ pipe' = [stage |-> "decoded", image |-> pipe.image, masks |-> pipe.masks,
                mask_data |-> pipe.mask_data,
                selected_masks |->
                    [i \in DOMAIN pipe.mask_data |->
                        decode_mask(pipe.mask_data[i], Width(pipe.image), Height(pipe.image))]]
    /\ UNCHANGED <<mainVars, call>>

PipeComposite ==
    /\ pipe.stage = "decoded"
    /\ pipe' = [stage |-> "composited", image |-> pipe.image, masks |-> pipe.masks,
                mask_data |-> pipe.mask_data, selected_masks |-> pipe.selected_masks,
                out |-> create_transparent_image_with_masks(pipe.image, pipe.selected_masks)]
    /\ UNCHANGED <<mainVars, call>>

NextPipeline == PipeEncode \/ PipeDecode \/ PipeComposite

SpecPipeline == InitPipeline /\ [][NextPipeline]_vars

----------------------------------------------------------------------------
(* One call of create_transparent_image_with_masks with a mask of any      *)
(* shape.                                                                  *)

InitComposite ==
    /\ MainInit
    /\ call = NoCall
    /\ \E d \in GridDims, dm \in GridDims :
         \E mask \in Grids(dm[1], dm[2], {0, 1}) :
            pipe = [stage |-> "compose_args", image |-> TestImage(d[1], d[2]),
                    masks |-> <<mask>>]

\* The picture is returned.
ComposeReturn ==
    /\ pipe.stage = "compose_args"
    /\ IsGrid(create_transparent_image_with_masks(pipe.image, pipe.masks))
    /\ pipe' = [stage |-> "composed", image |-> pipe.image, masks |-> pipe.masks,
                out |-> create_transparent_image_with_masks(pipe.image, pipe.masks)]
    /\ UNCHANGED <<mainVars, call>>

\* numpy cannot broadcast the shapes; the function raises ValueError.
ComposeRaise ==
    /\ pipe.stage = "compose_args"
    /\ ~IsGrid(create_transparent_image_with_masks(pipe.image, pipe.masks))
    /\ pipe' = [stage |-> "compose_raised", image |-> pipe.image, masks |-> pipe.masks,
                error |-> "ValueError"]
    /\ UNCHANGED <<mainVars, call>>

NextComposite == ComposeReturn \/ ComposeRaise

SpecComposite == InitComposite /\ [][NextComposite]_vars

----------------------------------------------------------------------------
(* SAMModel.predict_masks.                                                 *)

\* The call predict_masks makes to SamPredictor.predict for a mode and its prompts,
\* or the ValueError it raises instead. np.array() wraps the lists it passes on.
PredictDispatch(points, point_labels, box, mode) ==
    IF mode = "auto"
    THEN [raises |-> FALSE, point_coords |-> points, point_labels |-> point_labels, box |-> box]
    ELSE IF mode = "point" /\ ~points.is_none /\ ~point_labels.is_none
    THEN [raises |-> FALSE, point_coords |-> points, point_labels |-> point_labels, box |-> None]
    ELSE IF mode = "box" /\ ~box.is_none
    THEN [raises |-> FALSE, point_coords |-> None, point_labels |-> None, box |-> box]
    ELSE [raises |-> TRUE]

\* y_indices, x_indices = np.where(mask): the 0-based coordinates of the true cells.
TrueCells(mask) ==
    {c \in (0..(Height(mask) - 1)) \X (0..(Width(mask) - 1)) : mask[c[1] + 1][c[2] + 1]}

\* An entry whose box counts the pixels it spans (one more than the difference).
MaskEntryInclusive(i, mask, score) ==
    LET x_indices == {c[2] : c \in TrueCells(mask)}
        y_indices == {c[1] : c \in TrueCells(mask)}
    IN [id |-> i,
        score |-> score,
        bbox |-> <<Min(x_indices), Min(y_indices),
                   Max(x_indices) - Min(x_indices) + 1,
                   Max(y_indices) - Min(y_indices) + 1>>,
        mask_data |-> EncodeMask(mask),
        area |-> Cardinality(TrueCells(mask))]

\* The entry predict_masks appends for candidate i (0-based) of the predictor.
MaskEntry(i, mask, score) ==
    LET x_indices == {c[2] : c \in TrueCells(mask)}
        y_indices == {c[1] : c \in TrueCells(mask)}
        x_min == Min(x_indices)
        x_max == Max(x_indices)
        y_min == Min(y_indices)
        y_max == Max(y_indices)
    IN [id |-> i,
        score |-> score,
        bbox |-> <<x_min, y_min, x_max - x_min, y_max - y_min>>,
        mask_data |-> EncodeMask(mask),
        area |-> SumSeq(Flatten([y \in 1..Height(mask) |->
                                    [x \in 1..Width(mask) |-> astype_uint8(mask[y][x])]]))]

\* The loop without its test for true cells; a mask with none gets an empty box.
RECURSIVE ProcessLoopUnfiltered(_, _)
ProcessLoopUnfiltered(raw, i) ==
    IF i >= Len(raw) THEN <<>>
    ELSE (IF TrueCells(raw[i + 1].mask) # {}
          THEN <<MaskEntry(i, raw[i + 1].mask, raw[i + 1].score)>>
          ELSE <<[id |-> i, score |-> raw[i + 1].score, bbox |-> <<>>,
                  mask_data |-> EncodeMask(raw[i + 1].mask), area |-> 0]>>)
         \o ProcessLoopUnfiltered(raw, i + 1)

\* for i, (mask, score) in enumerate(zip(masks, scores)): candidates with a true
\* cell are appended in the predictor's order, the others are skipped.
RECURSIVE ProcessLoop(_, _)
ProcessLoop(raw, i) ==
    IF i >= Len(raw) THEN <<>>
    ELSE (IF TrueCells(raw[i + 1].mask) # {}
          THEN <<MaskEntry(i, raw[i + 1].mask, raw[i + 1].score)>>
          ELSE <<>>)
         \o ProcessLoop(raw, i + 1)

\* The dictionary predict_masks returns; original_size is (height, width) of the
\* image the predictor is bound to.
PredictResult(raw, original_size) ==
    [masks |-> ProcessLoop(raw, 0),
     image_width |-> original_size[2],
     image_height |-> original_size[1]]

----------------------------------------------------------------------------
(* SpecPredict: one call of predict_masks with every combination of mode    *)
(* and prompts, and the predictor's answer.                                 *)

Modes == {"auto", "point", "box", "polygon"}
PointLists == {None, Some(<<>>), Some(<<<<0, 0>>>>), Some(<<<<-1, 0>>>>)}
LabelLists == {None, Some(<<>>), Some(<<1>>), Some(<<1, 0>>)}
Boxes == {None, Some(<<>>), Some(<<0, 0, 1, 1>>)}

\* Predictor confidences, as ranking keys.
Scores == {3, 9}

ZeroMask(h, w) == [y \in 1..h |-> [x \in 1..w |-> FALSE]]
OneMask(h, w) == [y \in 1..h |-> [x \in 1..w |-> TRUE]]
SampleMasks(h, w) ==
    {ZeroMask(h, w), OneMask(h, w),
     [y \in 1..h |-> [x \in 1..w |-> y = 1 /\ x = 1]],
     [y \in 1..h |-> [x \in 1..w |-> y = h /\ x = w]],
     [y \in 1..h |-> [x \in 1..w |-> ~(y = 1 /\ x = 1)]]}

\* What SamPredictor.predict may return: up to MaxCands (mask, score) pairs.
RawOutputs(masks, scores) ==
    UNION {[1..n -> [mask : masks, score : scores]] : n \in 0..MaxCands}

InitPredict ==
    /\ MainInit
    /\ pipe = NoPipe
    /\ \E points \in PointLists, point_labels \in LabelLists, box \in Boxes,
          mode \in Modes, d \in GridDims :
         call = [stage |-> "args", points |-> points, point_labels |-> point_labels,
                 box |-> box, mode |-> mode, original_size |-> d]

\* predict_masks up to its call of the predictor (or its ValueError).
CallDispatch ==
    /\ call.stage = "args"
    /\ LET d == PredictDispatch(call.points, call.point_labels, call.box, call.mode)
       IN call' = IF d.raises
                  THEN [stage |-> "raised", error |-> "ValueError", points |-> call.points,
                        point_labels |-> call.point_labels, box |-> call.box,
                        mode |-> call.mode]
                  ELSE [stage |-> "predicting", predict_args |-> d, points |-> call.points,
                        point_labels |-> call.point_labels, box |-> call.box,
                        mode |-> call.mode, original_size |-> call.original_size]
    /\ UNCHANGED <<mainVars, pipe>>

\* The predictor answers and predict_masks builds its result.
CallReturn ==
    /\ call.stage = "predicting"
    /\ \E raw \in RawOutputs(SampleMasks(call.original_size[1], call.original_size[2]), Scores) :
         call' = [stage |-> "returned", raw |-> raw,
                  result |-> PredictResult(raw, call.original_size)]
    /\ UNCHANGED <<mainVars, pipe>>

\* The predictor raises; predict_masks logs and re-raises.
CallRaise ==
    /\ call.stage = "predicting"
    /\ call' = [stage |-> "raised", error |-> "PredictError", points |-> call.points,
                point_labels |-> call.point_labels, box |-> call.box, mode |-> call.mode]
    /\ UNCHANGED <<mainVars, pipe>>

NextPredict == CallDispatch \/ CallReturn \/ CallRaise

SpecPredict == InitPredict /\ [][NextPredict]_vars

----------------------------------------------------------------------------
(* The session endpoints of routers/segmentation.py. Every handler is an    *)
(* `async def`: it runs on the one event loop and gives the loop up only at *)
(* an await. An action is one turn of a coroutine on the loop, from one     *)
(* await to the next, or one step of the thread that resolves the get_model *)
(* dependency (FastAPI runs a plain `def` dependency in its thread pool).   *)

Put(f, k, v) == [x \in (DOMAIN f) \cup {k} |-> IF x = k THEN v ELSE f[x]]
Del(f, k) == [x \in (DOMAIN f) \ {k} |-> f[x]]

SessionIds == 1..MaxSessions

\* The pictures clients upload; their shapes differ, and no picture is
\* uploaded while a copy of it is on disk.
UploadImages == {TestImage(1, 2), TestImage(2, 1)}

\* uploads/<uuid4>.png and uploads/export_<image_id>.png
upload_path(id) == <<"uploads", id>>
export_path(id) == <<"uploads/export", id>>

\* cv2.imread: None when the file cannot be read, else the pixels as (B, G, R).
cv2_imread(path) ==
    IF path \in DOMAIN files
    THEN Some([y \in 1..Height(files[path]) |->
                 [x \in 1..Width(files[path]) |->
                    <<files[path][y][x][3], files[path][y][x][2], files[path][y][x][1]>>]])
    ELSE None

\* The SAMModel instances something still refers to: the module's global and
\* the `model` argument of every handler that has one.
Live(instance, requests) ==
    {instance} \cup {requests[r].model :
                         r \in {q \in DOMAIN requests : "model" \in DOMAIN requests[q]}}

\* CPython frees an instance when the last reference to it goes.
Collect(preds, live) == [m \in (DOMAIN preds) \cap live |-> preds[m]]

\* A new request takes the first free slot.
FreeSlot(r) == req[r].pc = "idle" /\ \A q \in 1..(r - 1) : req[q].pc # "idle"

\* A set_image that keeps the image the predictor already holds.
set_image_once(preds, m, image, r) ==
    IF preds[m].is_image_set THEN preds
    ELSE [preds EXCEPT ![m] = [is_image_set |-> TRUE,
                               original_size |-> <<Height(image), Width(image)>>,
                               bound_by |-> r]]

\* SAMModel.set_image: SamPredictor.set_image binds the image; bound_by records
\* the request that made the call.
set_image(preds, m, image, r) ==
    [preds EXCEPT ![m] = [is_image_set |-> TRUE,
                          original_size |-> <<Height(image), Width(image)>>,
                          bound_by |-> r]]

\* The prompts of a segment request: none (the defaults of a missing body),
\* or box mode without a box.
SessionPrompts ==
    {[points |-> None, point_labels |-> None, box |-> None, mode |-> "auto"],
     [points |-> None, point_labels |-> None, box |-> None, mode |-> "box"]}

\* What the predictor may return for an image of h by w: an empty candidate
\* before a full one, or two full candidates.
SessionOutputs(h, w) ==
    {<<[mask |-> ZeroMask(h, w), score |-> 9], [mask |-> OneMask(h, w), score |-> 9]>>,
     <<[mask |-> OneMask(h, w), score |-> 3], [mask |-> OneMask(h, w), score |-> 9]>>}

\* A store that appends the new masks to the ones already stored.
StoreResultMerged(store, image_id, result) ==
    [store EXCEPT ![image_id] =
        [file_path |-> @.file_path,
         masks |-> IF @.masks.is_none THEN Some(result)
                   ELSE Some([result EXCEPT !.masks = store[image_id].masks.val.masks \o @]),
         segmented |-> TRUE]]

\* A store that writes the result and leaves the flag as it was.
StoreResultUnflagged(store, image_id, result) ==
    [store EXCEPT ![image_id] =
        [file_path |-> @.file_path, masks |-> Some(result), segmented |-> @.segmented]]

\* IMAGE_STORE[image_id]["masks"] = result; IMAGE_STORE[image_id]["segmented"] = True
StoreResult(store, image_id, result) ==
    [store EXCEPT ![image_id] =
        [file_path |-> @.file_path, masks |-> Some(result), segmented |-> TRUE]]

SegmentError(image_id, status, detail) ==
    [kind |-> "segment", image_id |-> image_id, status |-> status, detail |-> detail]

\* A segment_image that clears the session's result before it calls
\* predict_masks, so that a call that fails leaves the session unsegmented.
SegmentPredictClearFirst(r, image_id, prompts, preds) ==
    LET m == req[r].model
        d == PredictDispatch(prompts.points, prompts.point_labels, prompts.box, prompts.mode)
        size == preds[m].original_size
        cleared == [IMAGE_STORE EXCEPT ![image_id] =
                       [file_path |-> @.file_path, masks |-> None, segmented |-> FALSE]]
    IN /\ req' = [req EXCEPT ![r] = Idle]
       /\ predictors' = Collect(preds, Live(model_instance, req'))
       /\ UNCHANGED <<files, uuids, model_instance, pipe, call>>
       /\ IF d.raises
          THEN /\ resp' = SegmentError(image_id, 500, "ValueError")
               /\ IMAGE_STORE' = cleared
               /\ returned' = Del(returned, image_id)
          ELSE \/ /\ resp' = SegmentError(image_id, 500, "PredictError")
                  /\ IMAGE_STORE' = cleared
                  /\ returned' = Del(returned, image_id)
               \/ \E raw \in SessionOutputs(size[1], size[2]) :
                    LET result == PredictResult(raw, size)
                    IN /\ IMAGE_STORE' = StoreResult(IMAGE_STORE, image_id, result)
                       /\ returned' = Put(returned, image_id, result)
                       /\ resp' = [kind |-> "segment", by |-> r, status |-> 200,
                                   image_id |-> image_id, body |-> result,
                                   raw |-> raw, bound_by |-> preds[m].bound_by,
                                   replaced |-> IMAGE_STORE[image_id].segmented]

\* segment_image from model.predict_masks on, with the predictors as preds.
SegmentPredict(r, image_id, prompts, preds) ==
    LET m == req[r].model
        d == PredictDispatch(prompts.points, prompts.point_labels, prompts.box, prompts.mode)
        size == preds[m].original_size
    IN /\ req' = [req EXCEPT ![r] = Idle]
       /\ predictors' = Collect(preds, Live(model_instance, req'))
       /\ UNCHANGED <<files, uuids, model_instance, pipe, call>>
       /\ IF d.raises
          THEN /\ resp' = SegmentError(image_id, 500, "ValueError")
               /\ UNCHANGED <<IMAGE_STORE, returned>>
          ELSE \/ /\ resp' = SegmentError(image_id, 500, "PredictError")
                  /\ UNCHANGED <<IMAGE_STORE, returned>>
               \/ \E raw \in SessionOutputs(size[1], size[2]) :
                    LET result == PredictResult(raw, size)
                    IN IF image_id \in DOMAIN IMAGE_STORE
                       THEN /\ IMAGE_STORE' = StoreResult(IMAGE_STORE, image_id, result)
                            /\ returned' = Put(returned, image_id, result)
                            /\ resp' = [kind |-> "segment", by |-> r, status |-> 200,
                                        image_id |-> image_id, body |-> result,
                                        raw |-> raw, bound_by |-> preds[m].bound_by,
                                        replaced |-> IMAGE_STORE[image_id].segmented]
                       ELSE /\ resp' = SegmentError(image_id, 500, "KeyError")
                            /\ UNCHANGED <<IMAGE_STORE, returned>>

\* upload_image. Its one await, `await file.read()`, comes before it touches
\* the disk or IMAGE_STORE, so what it does to them is one turn on the loop.
UploadImage ==
    /\ \/ \* the content-type check fails (its HTTPException(400) is caught by
          \* `except Exception`), or PIL cannot open the bytes: 500
          /\ resp' = [kind |-> "upload", status |-> 500]
          /\ UNCHANGED <<IMAGE_STORE, files, uuids>>
       \/ /\ uuids < MaxSessions
          /\ \E image \in UploadImages \ {files[f] : f \in DOMAIN files} :
               LET image_id == uuids + 1
               IN /\ uuids' = image_id
                  /\ files' = Put(files, upload_path(image_id), image)
                  /\ IMAGE_STORE' = Put(IMAGE_STORE, image_id,
                                        [file_path |-> upload_path(image_id),
                                         masks |-> None, segmented |-> FALSE])
                  /\ resp' = [kind |-> "upload", status |-> 201, image_id |-> image_id]
    /\ UNCHANGED <<model_instance, predictors, req, returned, pipe, call>>

\* A segment request arrives; get_model starts in a worker thread and reads
\* `_model_instance is None`.
SegmentStart(r) ==
    /\ FreeSlot(r)
    /\ req' = [req EXCEPT ![r] = [kind |-> "segment",
                                  pc |-> IF model_instance = 0 THEN "get_model_create"
                                         ELSE "get_model_return"]]
    /\ resp' = NoResponse
    /\ UNCHANGED <<IMAGE_STORE, files, uuids, model_instance, predictors, returned, pipe, call>>

\* _model_instance = SAMModel(): a new instance with its own SamPredictor.
GetModelCreate(r) ==
    /\ req[r].pc = "get_model_create"
    /\ model_instance' = Min((1..(MaxReqs + 1)) \ DOMAIN predictors)
    /\ req' = [req EXCEPT ![r].pc = "get_model_return"]
    /\ predictors' = Collect(Put(predictors, model_instance', [is_image_set |-> FALSE]),
                             Live(model_instance', req'))
    /\ resp' = NoResponse
    /\ UNCHANGED <<IMAGE_STORE, files, uuids, returned, pipe, call>>

\* return _model_instance: the handler's body is ready to run on the loop.
GetModelReturn(r) ==
    /\ req[r].pc = "get_model_return"
    /\ req' = [req EXCEPT ![r] = [kind |-> "segment", pc |-> "body", model |-> model_instance]]
    /\ resp' = NoResponse
    /\ UNCHANGED <<IMAGE_STORE, files, uuids, model_instance, predictors, returned, pipe, call>>

\* segment_image fails before it reaches the model.
SegmentFail(r, response) ==
    /\ resp' = response
    /\ req' = [req EXCEPT ![r] = Idle]
    /\ predictors' = Collect(predictors, Live(model_instance, req'))
    /\ UNCHANGED <<IMAGE_STORE, files, uuids, model_instance, returned, pipe, call>>

\* A segment_image that gives up the loop between set_image and predict_masks.
SegmentBodyAwaitAfterBind(r) ==
    \/ /\ req[r].pc = "body"
       /\ \E image_id \in SessionIds :
            IF image_id \notin DOMAIN IMAGE_STORE
            THEN SegmentFail(r, SegmentError(image_id, 404, "Image not found"))
            ELSE \E prompts \in SessionPrompts :
                   /\ predictors' = set_image(predictors, req[r].model,
                                              cv2_imread(IMAGE_STORE[image_id].file_path).val, r)
                   /\ req' = [req EXCEPT ![r] = [kind |-> "segment", pc |-> "bound",
                                                 model |-> req[r].model,
                                                 image_id |-> image_id, prompts |-> prompts]]
                   /\ resp' = NoResponse
                   /\ UNCHANGED <<IMAGE_STORE, files, uuids, model_instance, returned,
                                  pipe, call>>
    \/ /\ req[r].pc = "bound"
       /\ SegmentPredict(r, req[r].image_id, req[r].prompts, predictors)

\* A segment_image that gives up the loop between the write of the masks and
\* the write of the flag.
SegmentBodyAwaitAfterMasks(r) ==
    \/ /\ req[r].pc = "body"
       /\ \E image_id \in DOMAIN IMAGE_STORE :
            LET image == cv2_imread(IMAGE_STORE[image_id].file_path).val
                preds == set_image(predictors, req[r].model, image, r)
            IN \E raw \in SessionOutputs(Height(image), Width(image)) :
                 LET result == PredictResult(raw, preds[req[r].model].original_size)
                 IN /\ predictors' = preds
                    /\ IMAGE_STORE' = [IMAGE_STORE EXCEPT ![image_id].masks = Some(result)]
                    /\ req' = [req EXCEPT ![r] = [kind |-> "segment", pc |-> "stored",
                                                  model |-> req[r].model,
                                                  image_id |-> image_id, raw |-> raw]]
                    /\ resp' = NoResponse
                    /\ UNCHANGED <<files, uuids, model_instance, returned, pipe, call>>
    \/ /\ req[r].pc = "stored"
       /\ IF req[r].image_id \in DOMAIN IMAGE_STORE
          THEN /\ IMAGE_STORE' = [IMAGE_STORE EXCEPT ![req[r].image_id].segmented = TRUE]
               /\ returned' = Put(returned, req[r].image_id,
                                  PredictResult(req[r].raw,
                                                predictors[req[r].model].original_size))
               /\ resp' = [kind |-> "segment", by |-> r, status |-> 200,
                           image_id |-> req[r].image_id,
                           body |-> PredictResult(req[r].raw,
                                                  predictors[req[r].model].original_size),
                           raw |-> req[r].raw,
                           bound_by |-> predictors[req[r].model].bound_by,
                           replaced |-> IMAGE_STORE[req[r].image_id].segmented]
          ELSE /\ resp' = SegmentError(req[r].image_id, 500, "KeyError")
               /\ UNCHANGED <<IMAGE_STORE, returned>>
       /\ req' = [req EXCEPT ![r] = Idle]
       /\ predictors' = Collect(predictors, Live(model_instance, req'))
       /\ UNCHANGED <<files, uuids, model_instance, pipe, call>>

\* segment_image's body: no await in it, so it is one turn on the loop.
SegmentBody(r) ==
    /\ req[r].pc = "body"
    /\ \E image_id \in SessionIds :
         IF image_id \notin DOMAIN IMAGE_STORE
         THEN SegmentFail(r, SegmentError(image_id, 404, "Image not found"))
         ELSE LET image == cv2_imread(IMAGE_STORE[image_id].file_path)
              IN IF image.is_none
                 THEN SegmentFail(r, SegmentError(image_id, 500, "Failed to read image"))
                 ELSE \E prompts \in SessionPrompts :
                        SegmentPredict(r, image_id, prompts,
                                       set_image(predictors, req[r].model, image.val, r))

\* The mask ids a client asks export for.
ExportSelections == {<<>>, <<0>>, <<1, 0>>, <<7>>}

\* An export that lets every session through.
ExportRejectsNothing(image_data) == FALSE

\* if not image_data["segmented"] or not image_data["masks"]
ExportRejects(image_data) == ~image_data.segmented \/ image_data.masks.is_none

\* A selection that takes every stored mask, whatever ids are requested.
SelectMasksAll(masks_data, mask_ids, image_width, image_height) ==
    [k \in DOMAIN masks_data |->
        decode_mask(masks_data[k].mask_data, image_width, image_height)]

\* The decoded mask of every requested id that exists, in the order requested.
RECURSIVE SelectMasks(_, _, _, _)
SelectMasks(masks_data, mask_ids, image_width, image_height) ==
    IF mask_ids = <<>> THEN <<>>
    ELSE LET found == {k \in DOMAIN masks_data : masks_data[k].id = Head(mask_ids)}
             rest == SelectMasks(masks_data, Tail(mask_ids), image_width, image_height)
         IN IF found = {} THEN rest
            ELSE <<decode_mask(masks_data[Min(found)].mask_data, image_width, image_height)>>
                 \o rest

\* export_image: the response, with the picture it saves when it succeeds.
ExportOutcome(image_id, mask_ids) ==
    IF image_id \notin DOMAIN IMAGE_STORE
    THEN [status |-> 404, detail |-> "Image not found"]
    ELSE LET image_data == IMAGE_STORE[image_id]
         IN IF ExportRejects(image_data)
            THEN [status |-> 400, detail |-> "Image has not been segmented yet"]
            ELSE LET image == cv2_imread(image_data.file_path)
                     masks_data == image_data.masks.val.masks
                     selected_masks ==
                         SelectMasks(masks_data, mask_ids, image_data.masks.val.image_width,
                                     image_data.masks.val.image_height)
                     result_image ==
                         create_transparent_image_with_masks(image.val, selected_masks)
                 IN IF image.is_none
                    THEN [status |-> 500, detail |-> "Failed to read image"]
                    ELSE IF image_data.masks.is_none
                    THEN [status |-> 500, detail |-> "TypeError"]
                    ELSE IF ~\E i \in DOMAIN mask_ids : \E k \in DOMAIN masks_data :
                                masks_data[k].id = mask_ids[i]
                    THEN [status |-> 400, detail |-> "None of the requested mask IDs exist"]
                    ELSE IF \E i \in DOMAIN selected_masks : ~IsGrid(selected_masks[i])
                    THEN [status |-> 500, detail |-> "ValueError"]
                    ELSE IF ~IsGrid(result_image)
                    THEN [status |-> 500, detail |-> "ValueError"]
                    ELSE [status |-> 200, detail |-> "FileResponse", body |-> result_image]

\* export_image answers, after it has saved the picture if it made one.
ExportRun(image_id, mask_ids) ==
    LET out == ExportOutcome(image_id, mask_ids)
    IN /\ resp' = [kind |-> "export", image_id |-> image_id, status |-> out.status,
                   detail |-> out.detail]
       /\ files' = IF out.status = 200 THEN Put(files, export_path(image_id), out.body)
                   ELSE files
       /\ UNCHANGED <<IMAGE_STORE, uuids, model_instance, predictors, req, returned, pipe>>

\* export_image: no await in it, one turn on the loop.
ExportImage ==
    \E image_id \in SessionIds, mask_ids \in ExportSelections :
        /\ ExportRun(image_id, mask_ids)
        /\ UNCHANGED call

\* A delete_image that leaves the exported picture on disk.
DeleteImageKeepExport ==
    \E image_id \in SessionIds :
        /\ IF image_id \notin DOMAIN IMAGE_STORE
           THEN /\ resp' = [kind |-> "delete", image_id |-> image_id, status |-> 404]
                /\ UNCHANGED <<IMAGE_STORE, files, returned>>
           ELSE /\ files' = Del(files, IMAGE_STORE[image_id].file_path)
                /\ IMAGE_STORE' = Del(IMAGE_STORE, image_id)
                /\ returned' = Del(returned, image_id)
                /\ resp' = [kind |-> "delete", image_id |-> image_id, status |-> 200,
                            removed |-> (DOMAIN files) \ (DOMAIN files')]
        /\ UNCHANGED <<uuids, model_instance, predictors, req, pipe, call>>

\* delete_image: no await in it, one turn on the loop.
DeleteImage ==
    \E image_id \in SessionIds :
        /\ IF image_id \notin DOMAIN IMAGE_STORE
           THEN /\ resp' = [kind |-> "delete", image_id |-> image_id, status |-> 404]
                /\ UNCHANGED <<IMAGE_STORE, files, returned>>
           ELSE /\ files' = Del(Del(files, IMAGE_STORE[image_id].file_path),
                                export_path(image_id))
                /\ IMAGE_STORE' = Del(IMAGE_STORE, image_id)
                /\ returned' = Del(returned, image_id)
                /\ resp' = [kind |-> "delete", image_id |-> image_id, status |-> 200,
                            removed |-> (DOMAIN files) \ (DOMAIN files')]
        /\ UNCHANGED <<uuids, model_instance, predictors, req, pipe, call>>

Init ==
    /\ MainInit
    /\ pipe = NoPipe
    /\ call = NoCall

Next ==
    \/ \E r \in 1..MaxReqs :
         \/ SegmentStart(r)
         \/ GetModelCreate(r)
         \/ GetModelReturn(r)
         \/ SegmentBody(r)
    \/ UploadImage
    \/ ExportImage
    \/ DeleteImage

Spec == Init /\ [][Next]_vars

----------------------------------------------------------------------------
(* One call of export_image on a store that holds one session, after its   *)
(* upload alone or after a segment call on it as well.                     *)

\* The mask ids of the call.
ExportRequests ==
    {<<>>, <<0>>, <<1>>, <<0, 1>>, <<1, 0>>, <<0, 0>>, <<0, 7>>, <<7, 1>>, <<7>>}

ExportScores == {9}

InitExport ==
    /\ pipe = NoPipe
    /\ uuids = 1
    /\ req = [r \in 1..MaxReqs |-> Idle]
    /\ resp = NoResponse
    /\ \E d \in GridDims, mask_ids \in ExportRequests :
         /\ files = Put(<<>>, upload_path(1), TestImage(d[1], d[2]))
         /\ call = [stage |-> "export", image_id |-> 1, mask_ids |-> mask_ids]
         /\ \/ /\ IMAGE_STORE = Put(<<>>, 1, [file_path |-> upload_path(1),
                                              masks |-> None, segmented |-> FALSE])
               /\ returned = <<>>
               /\ model_instance = 0
               /\ predictors = <<>>
            \/ \E raw \in RawOutputs(SampleMasks(d[1], d[2]), ExportScores) :
                 /\ IMAGE_STORE = StoreResult(Put(<<>>, 1, [file_path |-> upload_path(1),
                                                           masks |-> None,
                                                           segmented |-> FALSE]),
                                              1, PredictResult(raw, d))
                 /\ returned = Put(<<>>, 1, PredictResult(raw, d))
                 /\ model_instance = 1
                 /\ predictors = Put(<<>>, 1, [is_image_set |-> TRUE,
                                               original_size |-> d, bound_by |-> 1])

ExportCall ==
    /\ call.stage = "export"
    /\ ExportRun(call.image_id, call.mask_ids)
    /\ call' = [call EXCEPT !.stage = "exported"]

NextExport == ExportCall

SpecExport == InitExport /\ [][NextExport]_vars

----------------------------------------------------------------------------
(* The resize of main.py's /segment-with-points (and /segment): the size   *)
(* the image is brought to before it goes to the predictor, and the points *)
(* moved with it.                                                          *)

max_dimension == 1024

RECURSIVE OddPart(_)
OddPart(c) == IF c % 2 = 0 THEN OddPart(c \div 2) ELSE c

\* An int() that rounds up.
CeilScaled(a, b, c) == {(a * b + c - 1) \div c}

\* int(a * (b / c)) in Python's double arithmetic, a, b >= 0 and c > 0 small
\* integers. The quotient b / c is exact when the odd part of c divides b.
\* Otherwise it is rounded, and so is the product: when a * b / c is a whole
\* number q the product may come out just under q, and int() then gives
\* q - 1. When a * b / c is no whole number the rounding is too small to
\* carry the product across one, and int() gives the floor.
TruncScaled(a, b, c) ==
    IF (a * b) % c = 0 /\ a * b > 0 /\ b % OddPart(c) # 0
    THEN {(a * b) \div c, (a * b) \div c - 1}
    ELSE {(a * b) \div c}

\* Widths and heights of the pictures sent, and the points sent with them:
\* the far corner, the origin, the middle.
Dimensions == {1, 2, 561, 1000, 1024, 1025, 1122, 1500, 2048, 3000}
PointsIn(size) ==
    {<<size[1] - 1, size[2] - 1>>, <<0, 0>>, <<size[1] \div 2, size[2] \div 2>>}

InitResize ==
    /\ MainInit
    /\ pipe = NoPipe
    /\ \E original_width \in Dimensions, original_height \in Dimensions :
         \E point \in PointsIn(<<original_width, original_height>>) :
            call = [stage |-> "resize_args", size |-> <<original_width, original_height>>,
                    point |-> point]

\* The new size, and image.resize, which raises ValueError("height and width
\* must be > 0") for a side of 0; the handler answers 400 then.
ResizeImage ==
    /\ call.stage = "resize_args"
    /\ LET original_width == call.size[1]
           original_height == call.size[2]
       IN IF original_width > max_dimension \/ original_height > max_dimension
          THEN \E new_size \in
                    IF original_width > original_height
                    THEN {<<max_dimension, new_height>> : new_height \in
                             TruncScaled(original_height, max_dimension, original_width)}
                    ELSE {<<new_width, max_dimension>> : new_width \in
                             TruncScaled(original_width, max_dimension, original_height)} :
                 call' = IF new_size[1] < 1 \/ new_size[2] < 1
                         THEN [stage |-> "invalid", size |-> call.size, point |-> call.point,
                               status |-> 400]
                         ELSE [stage |-> "resized", size |-> call.size, point |-> call.point,
                               new_size |-> new_size]
          ELSE call' = [stage |-> "kept", size |-> call.size, point |-> call.point,
                        new_size |-> call.size, point_coords |-> call.point]
    /\ UNCHANGED <<mainVars, pipe>>

\* point_coords[i][0] = int(point_coords[i][0] * width_ratio), and [1] alike.
RemapPoints ==
    /\ call.stage = "resized"
    /\ \E x \in TruncScaled(call.point[1], call.new_size[1], call.size[1]),
          y \in TruncScaled(call.point[2], call.new_size[2], call.size[2]) :
         call' = [stage |-> "remapped", size |-> call.size, point |-> call.point,
                  new_size |-> call.new_size, point_coords |-> <<x, y>>]
    /\ UNCHANGED <<mainVars, pipe>>

NextResize == ResizeImage \/ RemapPoints

SpecResize == InitResize /\ [][NextResize]_vars

----------------------------------------------------------------------------
(* Claims checked under SpecPipeline.                                      *)

\* C3: decoding the encoding of a boolean grid m of width w and height h gives a
\* grid of h rows of w cells whose cell (y, x) is set exactly when m's is.
C3_RoundTrip ==
    pipe.stage \in {"decoded", "composited"} =>
        \A i \in DOMAIN pipe.masks :
            LET m == pipe.masks[i]
                back == pipe.selected_masks[i]
            IN /\ IsGrid(back)
               /\ Height(back) = Height(m)
               /\ \A y \in 1..Height(m) :
                    /\ Len(back[y]) = Width(m)
                    /\ \A x \in 1..Width(m) : (back[y][x] = 1) = m[y][x]
                    /\ \A x \in 1..Width(m) : back[y][x] \in {0, 1}

\* A 2 x 2 mask with a single true cell off the diagonal has been decoded: row-major
\* order and the threshold both matter for it.
C3_Witness ==
    /\ pipe.stage = "decoded"
    /\ \E i \in DOMAIN pipe.masks :
         pipe.masks[i] = <<<<FALSE, TRUE>>, <<FALSE, FALSE>>>>

\* C4: every output pixel is the image's colour with alpha 255 where at least one
\* selected mask is set, and (0,0,0) with alpha 0 elsewhere.
C4_PureUnion ==
    pipe.stage = "composited" =>
        /\ IsGrid(pipe.out)
        /\ \A y \in 1..Height(pipe.image) : \A x \in 1..Width(pipe.image) :
             LET covered == \E i \in DOMAIN pipe.selected_masks :
                                pipe.selected_masks[i][y][x] # 0
                 px == pipe.image[y][x]
             IN pipe.out[y][x] = IF covered THEN <<px[1], px[2], px[3], 255>>
                                 ELSE <<0, 0, 0, 0>>

\* Two different, overlapping masks have been composited and a pixel is left
\* transparent.
C4_Witness ==
    /\ pipe.stage = "composited"
    /\ Len(pipe.selected_masks) = 2
    /\ pipe.selected_masks[1] # pipe.selected_masks[2]
    /\ \E y \in 1..Height(pipe.image) : \E x \in 1..Width(pipe.image) :
         pipe.selected_masks[1][y][x] = 1 /\ pipe.selected_masks[2][y][x] = 1
    /\ \E y \in 1..Height(pipe.image) : \E x \in 1..Width(pipe.image) :
         pipe.out[y][x][4] = 0

\* The list s back to front.
Reversed(s) == [i \in 1..Len(s) |-> s[Len(s) + 1 - i]]

\* C17: compositing is idempotent and independent of order: the picture made
\* from a list of masks is the picture made from the list reversed and from the
\* list with every mask repeated, and a mask composited twice gives the picture
\* of that mask composited once.
C17_IdempotentAnyOrder ==
    pipe.stage = "composited" =>
        LET m == pipe.selected_masks
        IN /\ pipe.out = create_transparent_image_with_masks(pipe.image, Reversed(m))
           /\ pipe.out = create_transparent_image_with_masks(pipe.image, m \o m)
           /\ pipe.out = create_transparent_image_with_masks(pipe.image, m \o Reversed(m))
           /\ \A i \in DOMAIN m :
                create_transparent_image_with_masks(pipe.image, <<m[i], m[i]>>)
                    = create_transparent_image_with_masks(pipe.image, <<m[i]>>)

\* Two masks, each covering a pixel the other leaves out, have been composited
\* over an image whose pixels differ.
C17_Witness ==
    /\ pipe.stage = "composited"
    /\ Len(pipe.selected_masks) = 2
    /\ pipe.image = TestImage(Height(pipe.image), Width(pipe.image))
    /\ \E y \in 1..Height(pipe.image) : \E x \in 1..Width(pipe.image) :
         pipe.selected_masks[1][y][x] = 1 /\ pipe.selected_masks[2][y][x] = 0
    /\ \E y \in 1..Height(pipe.image) : \E x \in 1..Width(pipe.image) :
         pipe.selected_masks[1][y][x] = 0 /\ pipe.selected_masks[2][y][x] = 1
    /\ pipe.out # create_transparent_image_with_masks(pipe.image, <<pipe.selected_masks[1]>>)

----------------------------------------------------------------------------
(* Claims checked under SpecPredict.                                       *)

\* The raw indices (1-based) in S by score descending, lower index first on a tie.
RECURSIVE RankOrder(_, _)
RankOrder(raw, S) ==
    IF S = {} THEN <<>>
    ELSE LET best == CHOOSE i \in S : \A j \in S :
                        \/ raw[i].score > raw[j].score
                        \/ raw[i].score = raw[j].score /\ i <= j
         IN <<best>> \o RankOrder(raw, S \ {best})

\* C5: the masks of a result are the predictor's non-empty candidates ordered by
\* score descending, ties by lower predictor order first, and the id of each is its
\* 0-based position in that order (ids 0..n-1, id 0 the top-ranked mask).
C5_RankedAndRenumbered ==
    call.stage = "returned" =>
        LET raw == call.raw
            order == RankOrder(raw, {i \in DOMAIN raw : TrueCells(raw[i].mask) # {}})
            ms == call.result.masks
        IN /\ Len(ms) = Len(order)
           /\ \A k \in DOMAIN ms :
                /\ ms[k].id = k - 1
                /\ ms[k].score = raw[order[k]].score
                /\ ms[k].mask_data = EncodeMask(raw[order[k]].mask)

\* The combinations of mode and prompts the design accepts.
ValidPromptCombination(mode, points, point_labels, box) ==
    \/ /\ mode = "point"
       /\ ~points.is_none /\ ~point_labels.is_none
       /\ Len(points.val) > 0
       /\ Len(point_labels.val) = Len(points.val)
       /\ box.is_none
    \/ /\ mode = "box"
       /\ ~box.is_none /\ Len(box.val) = 4
       /\ points.is_none /\ point_labels.is_none
    \/ /\ mode = "auto"
       /\ points.is_none /\ point_labels.is_none /\ box.is_none

\* C7: predict_masks reaches the predictor exactly with a valid combination of mode
\* and prompts; every other combination is refused before the predictor is called.
C7_PromptValidation ==
    call.stage \in {"predicting", "raised"} =>
        LET reached == call.stage = "predicting" \/ call.error = "PredictError"
        IN reached <=> ValidPromptCombination(call.mode, call.points,
                                              call.point_labels, call.box)

\* C18: every returned entry's bbox is (min_x, min_y, max_x - min_x,
\* max_y - min_y) over the true pixels of its mask, and its area is the number
\* of true pixels, which is the number of 255 entries of its mask_data. The
\* pixels are taken as a set, so no scan order enters.
C18_BboxAndArea ==
    call.stage = "returned" =>
        \A k \in DOMAIN call.result.masks :
            LET e == call.result.masks[k]
                T == TrueCells(call.raw[e.id + 1].mask)
            IN /\ T # {}
               /\ Len(e.bbox) = 4
               /\ \E c \in T : c[2] = e.bbox[1]
               /\ \E c \in T : c[1] = e.bbox[2]
               /\ \E c \in T : c[2] = e.bbox[1] + e.bbox[3]
               /\ \E c \in T : c[1] = e.bbox[2] + e.bbox[4]
               /\ \A c \in T : /\ e.bbox[1] <= c[2] /\ c[2] <= e.bbox[1] + e.bbox[3]
                                /\ e.bbox[2] <= c[1] /\ c[1] <= e.bbox[2] + e.bbox[4]
               /\ e.area = Cardinality(T)
               /\ e.area = Cardinality({j \in DOMAIN e.mask_data : e.mask_data[j] = 255})

\* An entry has been returned for a mask of several true pixels that does not
\* start at the image's first pixel.
C18_Witness ==
    /\ call.stage = "returned"
    /\ \E k \in DOMAIN call.result.masks :
         LET e == call.result.masks[k]
         IN /\ e.area >= 2
            /\ e.bbox[1] + e.bbox[2] > 0
            /\ e.bbox[3] + e.bbox[4] > 0

\* A coordinate pair outside an image of original_size = (height, width).
Outside(x, y, original_size) ==
    x < 0 \/ y < 0 \/ x >= original_size[2] \/ y >= original_size[1]

\* Some point of the list, or some corner of the box, lies outside the image.
PromptOutside(points, box, original_size) ==
    \/ /\ ~points.is_none
       /\ \E i \in DOMAIN points.val :
             Outside(points.val[i][1], points.val[i][2], original_size)
    \/ /\ ~box.is_none
       /\ Len(box.val) = 4
       /\ \/ Outside(box.val[1], box.val[2], original_size)
          \/ Outside(box.val[3], box.val[4], original_size)

\* C16: a point or box prompt with a coordinate outside the bound image
\* (x < 0, y < 0, x >= width or y >= height) is refused; the predictor is
\* never called with it.
C16_PromptOutOfBounds ==
    call.stage = "predicting" =>
        ~PromptOutside(call.predict_args.point_coords, call.predict_args.box,
                       call.original_size)

----------------------------------------------------------------------------
(* Claims checked under Spec. *)

Segmented(image_id) ==
    image_id \in DOMAIN IMAGE_STORE /\ ~IMAGE_STORE[image_id].masks.is_none

\* C1: an upload that succeeds leaves a session with segmented false and no
\* stored result; a segment call that succeeds leaves its session holding
\* exactly the result it returned, nothing of an earlier result with it, and
\* segmented true. Uploads, segments, exports and deletes come in any order.
C1_SessionLifecycle ==
    /\ (resp.kind = "upload" /\ resp.status = 201) =>
          /\ resp.image_id \in DOMAIN IMAGE_STORE
          /\ IMAGE_STORE[resp.image_id].masks = None
          /\ IMAGE_STORE[resp.image_id].segmented = FALSE
    /\ (resp.kind = "segment" /\ resp.status = 200) =>
          /\ resp.image_id \in DOMAIN IMAGE_STORE
          /\ IMAGE_STORE[resp.image_id].masks = Some(resp.body)
          /\ IMAGE_STORE[resp.image_id].segmented = TRUE
          /\ resp.body.masks = ProcessLoop(resp.raw, 0)

\* A segment call on a session that was segmented before has returned a
\* result of one mask, and the session holds that result.
C1_Witness ==
    /\ resp.kind = "segment" /\ resp.status = 200
    /\ resp.replaced
    /\ Len(resp.body.masks) = 1
    /\ Len(IMAGE_STORE[resp.image_id].masks.val.masks) = 1

\* C2: an export of a session that exists and whose segmented flag is false
\* is answered 400 "Image has not been segmented yet", whatever mask ids it
\* asks for, and no exported picture of that session is on disk.
C2_ExportUnsegmented ==
    (/\ resp.kind = "export"
     /\ resp.image_id \in DOMAIN IMAGE_STORE
     /\ ~IMAGE_STORE[resp.image_id].segmented) =>
        /\ resp.status = 400
        /\ resp.detail = "Image has not been segmented yet"
        /\ export_path(resp.image_id) \notin DOMAIN files

\* An export of a session that exists and is not segmented has been answered.
C2_Witness ==
    /\ resp.kind = "export"
    /\ resp.image_id \in DOMAIN IMAGE_STORE
    /\ ~IMAGE_STORE[resp.image_id].segmented
    /\ resp.status = 400

NonEmptyEntry(entry) ==
    /\ entry.area > 0
    /\ Len(entry.bbox) = 4
    /\ \E k \in DOMAIN entry.mask_data : entry.mask_data[k] = 255

\* C6: a candidate of the predictor without a true pixel is in neither the
\* result a segment call returns nor the result a session stores; every mask
\* of a stored result has area > 0 and a bounding box.
C6_EmptyMaskExclusion ==
    /\ \A image_id \in DOMAIN IMAGE_STORE :
         Segmented(image_id) =>
            \A k \in DOMAIN IMAGE_STORE[image_id].masks.val.masks :
               NonEmptyEntry(IMAGE_STORE[image_id].masks.val.masks[k])
    /\ (resp.kind = "segment" /\ resp.status = 200) =>
          /\ \A k \in DOMAIN resp.body.masks :
               /\ NonEmptyEntry(resp.body.masks[k])
               /\ TrueCells(resp.raw[resp.body.masks[k].id + 1].mask) # {}
          /\ \A i \in DOMAIN resp.raw :
               TrueCells(resp.raw[i].mask) = {} =>
                  ~\E k \in DOMAIN resp.body.masks : resp.body.masks[k].id = i - 1

\* The predictor returned an empty candidate and then a full one; the result
\* returned and stored holds the full one alone.
C6_Witness ==
    /\ resp.kind = "segment" /\ resp.status = 200
    /\ Len(resp.raw) = 2
    /\ TrueCells(resp.raw[1].mask) = {}
    /\ Len(IMAGE_STORE[resp.image_id].masks.val.masks) = 1
    /\ IMAGE_STORE[resp.image_id].masks.val.masks[1].id = 1

\* The shape of the picture a session keeps on disk.
SessionSize(image_id) ==
    <<Height(files[IMAGE_STORE[image_id].file_path]),
      Width(files[IMAGE_STORE[image_id].file_path])>>

\* C8: whenever predict_masks returns to a segment request, the image the
\* predictor holds was bound by that request and is that request's picture:
\* no other request's set_image ran on the predictor between the request's
\* set_image and its predict_masks, however the requests interleave.
C8_PredictOnOwnBinding ==
    (resp.kind = "segment" /\ resp.status = 200) =>
        /\ resp.bound_by = resp.by
        /\ <<resp.body.image_height, resp.body.image_width>> = SessionSize(resp.image_id)

\* A request has bound and predicted on the shared predictor while another
\* request, holding the same predictor, waits for its turn on the loop.
C8_Witness ==
    /\ resp.kind = "segment" /\ resp.status = 200
    /\ \E q \in 1..MaxReqs :
         /\ q # resp.by
         /\ req[q].pc = "body"
         /\ req[q].model = model_instance
         /\ predictors[model_instance].bound_by = resp.by

C10_SessionAtomicity ==
    \A image_id \in DOMAIN IMAGE_STORE :
        /\ IMAGE_STORE[image_id].segmented <=> ~IMAGE_STORE[image_id].masks.is_none
        /\ IMAGE_STORE[image_id].segmented =>
              /\ image_id \in DOMAIN returned
              /\ IMAGE_STORE[image_id].masks.val = returned[image_id]
        /\ ~IMAGE_STORE[image_id].segmented => image_id \notin DOMAIN returned

\* A second segment call on a session has overwritten the first call's
\* result while a third request was in flight.
C10_Witness ==
    /\ resp.kind = "segment" /\ resp.status = 200
    /\ resp.replaced
    /\ IMAGE_STORE[resp.image_id].masks.val = returned[resp.image_id]
    /\ \E q \in 1..MaxReqs : req[q].pc = "body"

\* C11: a delete of a session that exists answers 200 and takes the session
\* out of the store, its picture and its exported picture off the disk; a
\* delete of an id the store does not hold answers 404 and changes neither
\* the store nor the disk; a segment, export or delete of an id the store
\* does not hold, a deleted one among them, answers 404.
C11_Delete ==
    [][/\ (resp'.kind = "delete" /\ resp'.image_id \in DOMAIN IMAGE_STORE) =>
             /\ resp'.status = 200
             /\ IMAGE_STORE' = Del(IMAGE_STORE, resp'.image_id)
             /\ files' = Del(Del(files, upload_path(resp'.image_id)),
                             export_path(resp'.image_id))
             /\ upload_path(resp'.image_id) \notin DOMAIN files'
             /\ export_path(resp'.image_id) \notin DOMAIN files'
       /\ (resp'.kind = "delete" /\ resp'.image_id \notin DOMAIN IMAGE_STORE) =>
             /\ resp'.status = 404
             /\ IMAGE_STORE' = IMAGE_STORE
             /\ files' = files
       /\ (/\ resp'.kind \in {"segment", "export"}
           /\ resp'.image_id \notin DOMAIN IMAGE_STORE) =>
             /\ resp'.status = 404
             /\ IMAGE_STORE' = IMAGE_STORE
             /\ files' = files]_vars

\* A delete has taken a session's picture and its exported picture off the
\* disk, and the store no longer holds the session.
C11_Witness ==
    /\ resp.kind = "delete" /\ resp.status = 200
    /\ resp.removed = {upload_path(resp.image_id), export_path(resp.image_id)}
    /\ resp.image_id \notin DOMAIN IMAGE_STORE

\* C19: in every state every stored session has segmented true exactly when it
\* holds a result, and every mask of a held result has image_width *
\* image_height values, so that export's decode_mask can reshape it.
C19_StoreInvariant ==
    \A image_id \in DOMAIN IMAGE_STORE :
        LET session == IMAGE_STORE[image_id]
        IN /\ (session.segmented = TRUE) <=> ~session.masks.is_none
           /\ ~session.masks.is_none =>
                 \A k \in DOMAIN session.masks.val.masks :
                    LET mask_data == session.masks.val.masks[k].mask_data
                        image_width == session.masks.val.image_width
                        image_height == session.masks.val.image_height
                    IN /\ Len(mask_data) = image_width * image_height
                       /\ IsGrid(decode_mask(mask_data, image_width, image_height))

\* An export has decoded and composited a stored mask of one session while
\* another session is in the store with no result.
C19_Witness ==
    /\ resp.kind = "export" /\ resp.status = 200
    /\ Segmented(resp.image_id)
    /\ IMAGE_STORE[resp.image_id].masks.val.masks # <<>>
    /\ \E image_id \in DOMAIN IMAGE_STORE :
         /\ ~IMAGE_STORE[image_id].segmented
         /\ IMAGE_STORE[image_id].masks = None

\* C20: a segment call that fails, whether the session is unknown, the image
\* unreadable, the mode or prompts invalid or the predictor raises, leaves the
\* session store as it was, and so does every export, whatever it answers.
C20_FailureAndExportFrame ==
    [][/\ (resp'.kind = "segment" /\ resp'.status # 200) => IMAGE_STORE' = IMAGE_STORE
       /\ resp'.kind = "export" => IMAGE_STORE' = IMAGE_STORE]_vars

\* The predictor has raised in a segment call on a session that holds the
\* result of an earlier call.
C20_Witness ==
    /\ resp.kind = "segment" /\ resp.status = 500
    /\ resp.detail = "PredictError"
    /\ Segmented(resp.image_id)
    /\ IMAGE_STORE[resp.image_id].masks.val = returned[resp.image_id]

----------------------------------------------------------------------------
(* Claims checked under SpecExport. *)

\* The ids of the masks a session stores.
StoredIds(image_id) ==
    {IMAGE_STORE[image_id].masks.val.masks[k].id :
        k \in DOMAIN IMAGE_STORE[image_id].masks.val.masks}

\* The picture that holds the pixels, as cv2 reads them and fully opaque, that
\* a stored mask of an id in wanted covers, and nothing else.
UnionOfStored(image_id, wanted) ==
    LET result == IMAGE_STORE[image_id].masks.val
        image == cv2_imread(IMAGE_STORE[image_id].file_path).val
    IN [y \in 1..result.image_height |-> [x \in 1..result.image_width |->
          IF \E k \in DOMAIN result.masks :
                /\ result.masks[k].id \in wanted
                /\ result.masks[k].mask_data[(y - 1) * result.image_width + x] = 255
          THEN <<image[y][x][1], image[y][x][2], image[y][x][3], 255>>
          ELSE <<0, 0, 0, 0>>]]

\* C12: an export of a segmented session is answered 400 "None of the
\* requested mask IDs exist" exactly when no requested id is the id of a
\* stored mask, the empty list of ids included; when some requested id is,
\* the export succeeds and the picture it saves is the union of the stored
\* masks whose ids were requested, the unknown ids being passed over.
C12_NoMatchingMasks ==
    (call.stage = "exported" /\ Segmented(call.image_id)) =>
        LET wanted == {call.mask_ids[i] : i \in DOMAIN call.mask_ids}
                         \cap StoredIds(call.image_id)
        IN /\ (resp.status = 400 /\ resp.detail = "None of the requested mask IDs exist")
                 <=> wanted = {}
           /\ wanted = {} => export_path(call.image_id) \notin DOMAIN files
           /\ wanted # {} =>
                 /\ resp.status = 200
                 /\ export_path(call.image_id) \in DOMAIN files
                 /\ files[export_path(call.image_id)] = UnionOfStored(call.image_id, wanted)

\* An export asked for a stored id and an unknown one; the picture it saved
\* leaves out a pixel that another stored mask covers.
C12_Witness ==
    /\ call.stage = "exported" /\ Segmented(call.image_id)
    /\ call.mask_ids = <<0, 7>>
    /\ StoredIds(call.image_id) = {0, 1}
    /\ resp.status = 200
    /\ files[export_path(call.image_id)] # UnionOfStored(call.image_id, {0, 1})

----------------------------------------------------------------------------
(* Claims checked under SpecResize. *)

\* a / b rounded to the nearest whole number, a >= 0 and b > 0.
RoundDiv(a, b) == (2 * a + b) \div (2 * b)

\* C13: a picture wider than max_dimension is brought to a width of exactly
\* max_dimension and a height of round(H * max_dimension / W); a picture
\* with neither side over max_dimension keeps its size and its points.
C13_FitToBound ==
    /\ (call.stage \in {"resized", "remapped"} /\ call.size[1] > max_dimension) =>
          /\ call.new_size[1] = max_dimension
          /\ call.new_size[2] = RoundDiv(call.size[2] * max_dimension, call.size[1])
    /\ (/\ call.stage \in {"resized", "remapped", "invalid", "kept"}
        /\ call.size[1] <= max_dimension
        /\ call.size[2] <= max_dimension) =>
          /\ call.stage = "kept"
          /\ call.new_size = call.size
          /\ call.point_coords = call.point

\* C14: every point of a picture that is resized, its far corner (W-1, H-1)
\* among them, is moved to a point of the resized picture:
\* 0 <= x < new_width and 0 <= y < new_height.
C14_RemapInside ==
    call.stage = "remapped" =>
        /\ 0 <= call.point_coords[1] /\ call.point_coords[1] < call.new_size[1]
        /\ 0 <= call.point_coords[2] /\ call.point_coords[2] < call.new_size[2]

\* The far corner of a picture over max_dimension on both sides has been
\* moved to the far corner of the resized picture.
C14_Witness ==
    /\ call.stage = "remapped"
    /\ call.size[1] > max_dimension /\ call.size[2] > max_dimension
    /\ call.point = <<call.size[1] - 1, call.size[2] - 1>>
    /\ call.point_coords = <<call.new_size[1] - 1, call.new_size[2] - 1>>

----------------------------------------------------------------------------
(* Claims checked under SpecComposite. *)

\* C15: the compositor refuses every mask whose height and width are not
\* exactly the image's, a mask of one row or one column included, and makes
\* no picture from it.
C15_DimensionMismatch ==
    (/\ pipe.stage \in {"composed", "compose_raised"}
     /\ \E i \in DOMAIN pipe.masks :
           \/ Height(pipe.masks[i]) # Height(pipe.image)
           \/ Width(pipe.masks[i]) # Width(pipe.image)) =>
        pipe.stage = "compose_raised"

====
